---- MODULE Spec2Model ----
(***************************************************************************)
(* The live audio session engine of the voice-chat client:                 *)
(* GeminiLiveService (src/services/geminiLiveService.ts) driven by the App *)
(* component (src/App.tsx), the browser's audio engine and the remote      *)
(* session.  Every handler that runs to completion without suspending is   *)
(* one action; connect() and handleMessage() are split at their awaits.    *)
(*                                                                         *)
(* Time is counted in units of half a second.  Transcript text is a        *)
(* sequence of delta identifiers: the delta carried by the n-th inbound    *)
(* message is either the empty text << >> or the one-element text <<n>>,   *)
(* so that concatenation order and the provenance of text are visible.     *)
(***************************************************************************)
EXTENDS Integers, Sequences, FiniteSets, TLC

\* ------------------------------------------------------------------ bounds
MaxConnects == 3        \* connect() calls in one run: most any specification allows
MaxMsgs == 3            \* inbound server messages in one run
MaxTime == 2            \* ticks of each playback engine clock
MaxDuration == 2        \* longest decoded chunk (2 = 1.0 s, 1 = 0.5 s)
TranscriptConnects == 2 \* connect() calls in the transcript runs
TranscriptMsgs == 3     \* inbound messages in the transcript runs
PlaybackConnects == 1   \* connect() calls in the playback runs
PlaybackMsgs == 3       \* inbound messages in the playback runs
InterruptionConnects == 1 \* connect() calls in the interruption runs
InterruptionMsgs == 3     \* inbound messages in the interruption runs
LifecycleConnects == 3  \* connect() calls in the lifecycle runs
LifecycleMsgs == 1      \* inbound messages in the lifecycle runs
CaptureConnects == 2    \* connect() calls in the capture runs
DispatchConnects == 1   \* connect() calls in the dispatch runs
DispatchMsgs == 3       \* inbound messages in the dispatch runs

\* ------------------------------------------------------- program constants
OutputActivityVolume == 5   \* onVolumeChange(0.5), in tenths
FullVolume == 10            \* Math.min(rms * 5, 1) clamps at 1, in tenths

Conns == 1..MaxConnects
NULL == 0

VARIABLES
  svc,          \* the GeminiLiveService instance's fields
  dev,          \* the browser audio resources the service has touched
  currentTime,  \* AudioContext.currentTime of each output context
  pc,           \* where each connect() call stands
  session,      \* the remote session opened by each connect() call
  connects,     \* connect() calls made so far
  decoding,     \* handleMessage calls suspended in decodeAudioData
  msgCount,     \* inbound messages delivered so far
  outbox,       \* sessions a captured frame has been submitted to
  status,       \* App state: the ConnectionStatus last reported
  messages,     \* App state: the visible ChatMessage list
  volume,       \* App state: the volume last reported (tenths)
  unmounted,    \* App: the effect cleanup has run
  delivered,    \* the message the latest step delivered: <<m>>, else << >>
  emitted,      \* transcript events emitted by the latest step
  arrived,      \* per speaker: deltas received since the turn last closed or
                \* was interrupted; mixed: one message carried deltas of both
  discarded,    \* delta identifiers dropped by an interruption
  active,       \* the connect() call not yet followed by disconnect(), or 0
  lastReport,   \* the latest status callback invocation: its status and
                \* the connect() call that made it (itself or a callback)
  failed,       \* a Connected session's onerror has fired and connect()
                \* has not been entered since
  preempted     \* suspended handleMessage calls whose message arrived before
                \* an interruption that has been applied since

vars == <<svc, dev, currentTime, pc, session, connects, decoding, msgCount,
          outbox, status, messages, volume, unmounted, delivered, emitted,
          arrived, discarded, active, lastReport, failed, preempted>>

Max(a, b) == IF a >= b THEN a ELSE b

\* --------------------------------------------------- GeminiLiveService state
InitService ==
  [ inputAudioContext |-> NULL,
    outputAudioContext |-> NULL,
    scriptProcessor |-> NULL,
    mediaStream |-> NULL,
    nextStartTime |-> 0,
    sources |-> {},
    sessionPromise |-> NULL,
    currentInputTranscription |-> << >>,
    currentOutputTranscription |-> << >> ]

\* Browser side: running contexts, live microphone tracks, script processors
\* whose onaudioprocess is installed, every buffer source ever started, and
\* whether a call faulted.
InitDevices ==
  [ inputContexts |-> {},
    outputContexts |-> {},
    tracks |-> {},
    processors |-> {},
    nodes |-> << >>,
    fault |-> FALSE ]

World == [svc |-> svc, dev |-> dev]

\* AudioContext.close(): closing a context that is not running rejects.
closeContext(running, c) == running \ {c}
closeFaults(running, c) == c # NULL /\ c \notin running

\* --------------------------------------------------------------- stopAllAudio
stopNode(n) == [n EXCEPT !.stopped = TRUE]

\* stopAllAudio that forgets the sources without stopping them.
stopAllAudioNoStop(w) ==
  [w EXCEPT !.svc.sources = {}]

stopAllAudio(w) ==
  [w EXCEPT
     !.svc.sources = {},
     !.dev.nodes = [i \in DOMAIN w.dev.nodes |->
                      IF i \in w.svc.sources THEN stopNode(w.dev.nodes[i])
                                             ELSE w.dev.nodes[i]]]

\* ----------------------------------------------------------------- disconnect
disconnect(w) ==
  LET s == w.svc
      d == w.dev
      stopped == stopAllAudio(w)
  IN [ svc |-> [stopped.svc EXCEPT
                  !.inputAudioContext = NULL,
                  !.outputAudioContext = NULL,
                  !.mediaStream = NULL,
                  !.sessionPromise = NULL],
       dev |-> [stopped.dev EXCEPT
                  !.processors = {p \in d.processors : p.id # s.scriptProcessor},
                  !.tracks = d.tracks \ {s.mediaStream},
                  !.inputContexts = closeContext(d.inputContexts, s.inputAudioContext),
                  !.outputContexts = closeContext(d.outputContexts, s.outputAudioContext),
                  !.fault = \/ d.fault
                            \/ closeFaults(d.inputContexts, s.inputAudioContext)
                            \/ closeFaults(d.outputContexts, s.outputAudioContext)] ]

\* ------------------------------------------------------------ setupAudioInput
setupAudioInput(w, k) ==
  IF \/ w.svc.inputAudioContext = NULL
     \/ w.svc.mediaStream = NULL
     \/ w.svc.sessionPromise = NULL
  THEN w
  ELSE [w EXCEPT
          !.svc.scriptProcessor = k,
          !.dev.processors = @ \cup {[id |-> k,
                                      ctx |-> w.svc.inputAudioContext,
                                      stream |-> w.svc.mediaStream]}]

Init ==
  /\ svc = InitService
  /\ dev = InitDevices
  /\ currentTime = [k \in Conns |-> 0]
  /\ pc = [k \in Conns |-> "idle"]
  /\ session = [k \in Conns |-> "none"]
  /\ connects = 0
  /\ decoding = {}
  /\ msgCount = 0
  /\ outbox = {}
  /\ status = "DISCONNECTED"
  /\ messages = << >>
  /\ volume = 0
  /\ unmounted = FALSE
  /\ delivered = << >>
  /\ emitted = << >>
  /\ arrived = [model |-> << >>, user |-> << >>, mixed |-> FALSE]
  /\ discarded = {}
  /\ active = 0
  /\ lastReport = [conn |-> 0, status |-> "none"]
  /\ failed = FALSE
  /\ preempted = {}

SetWorld(w) == svc' = w.svc /\ dev' = w.dev

\* A step that delivers no message and emits no transcript event.
Quiet == delivered' = << >> /\ emitted' = << >>

\* onStatusChange(s), invoked by connect() call k or by one of its callbacks.
Report(k, s) == lastReport' = [conn |-> k, status |-> s]

\* A step that does not invoke the status callback.
NoReport == UNCHANGED lastReport

\* -------------------------------------------------------------------- connect
\* connect() up to its await of getUserMedia.
connectBegin(k) ==
  /\ status' = "CONNECTING"
  /\ Report(k, "CONNECTING")
  /\ failed' = FALSE
  /\ svc' = [svc EXCEPT !.inputAudioContext = k, !.outputAudioContext = k]
  /\ dev' = [dev EXCEPT !.inputContexts = @ \cup {k}, !.outputContexts = @ \cup {k}]
  /\ pc' = [pc EXCEPT ![k] = "getUserMedia"]
  /\ connects' = k
  /\ active' = k

\* getUserMedia resolved: connect() stores the stream and opens the session.
GetUserMediaGranted(k) ==
  /\ pc[k] = "getUserMedia"
  /\ svc' = [svc EXCEPT !.mediaStream = k, !.sessionPromise = k]
  /\ dev' = [dev EXCEPT !.tracks = @ \cup {k}]
  /\ pc' = [pc EXCEPT ![k] = "done"]
  /\ session' = [session EXCEPT ![k] = "opening"]
  /\ Quiet
  /\ NoReport
  /\ UNCHANGED <<currentTime, connects, decoding, preempted, msgCount, outbox, status,
                 messages, volume, unmounted, arrived, discarded, active,
                 failed>>

\* getUserMedia rejected: the catch block of connect().
GetUserMediaDenied(k) ==
  /\ pc[k] = "getUserMedia"
  /\ status' = "ERROR"
  /\ Report(k, "ERROR")
  /\ SetWorld(disconnect(World))
  /\ pc' = [pc EXCEPT ![k] = "done"]
  /\ active' = 0
  /\ Quiet
  /\ UNCHANGED <<currentTime, session, connects, decoding, preempted, msgCount, outbox,
                 messages, volume, unmounted, arrived, discarded, failed>>

\* ---------------------------------------------------------- session callbacks
onopen(k) ==
  /\ session[k] = "opening"
  /\ session' = [session EXCEPT ![k] = "open"]
  /\ status' = "CONNECTED"
  /\ Report(k, "CONNECTED")
  /\ SetWorld(setupAudioInput(World, k))
  /\ Quiet
  /\ UNCHANGED <<currentTime, pc, connects, decoding, preempted, msgCount, outbox,
                 messages, volume, unmounted, arrived, discarded, active,
                 failed>>

onerror(k) ==
  /\ session[k] \in {"opening", "open"}
  /\ session' = [session EXCEPT ![k] = "error"]
  /\ status' = "ERROR"
  /\ Report(k, "ERROR")
  /\ SetWorld(disconnect(World))
  /\ active' = 0
  /\ failed' = (failed \/ (session[k] = "open" /\ active = k))
  /\ Quiet
  /\ UNCHANGED <<currentTime, pc, connects, decoding, preempted, msgCount, outbox,
                 messages, volume, unmounted, arrived, discarded>>

onclose(k) ==
  /\ session[k] \in {"open", "error"}
  /\ session' = [session EXCEPT ![k] = "closed"]
  /\ status' = "DISCONNECTED"
  /\ Report(k, "DISCONNECTED")
  /\ active' = IF active = k THEN 0 ELSE active
  /\ Quiet
  /\ UNCHANGED <<svc, dev, currentTime, pc, connects, decoding, preempted, msgCount,
                 outbox, messages, volume, unmounted, arrived, discarded,
                 failed>>

\* ------------------------------------------------------------------------ App
\* The button is disabled while status is CONNECTING.
toggleConnection(maxConnects) ==
  /\ ~unmounted
  /\ status # "CONNECTING"
  /\ IF status \in {"CONNECTED", "CONNECTING"}
     THEN /\ SetWorld(disconnect(World))
          /\ status' = "DISCONNECTED"
          /\ volume' = 0
          /\ active' = 0
          /\ NoReport
          /\ UNCHANGED <<pc, connects, failed>>
     ELSE /\ connects < maxConnects
          /\ connectBegin(connects + 1)
          /\ UNCHANGED volume
  /\ Quiet
  /\ UNCHANGED <<currentTime, session, decoding, preempted, msgCount, outbox, messages,
                 unmounted, arrived, discarded>>

\* The cleanup of the App's effect.
Unmount ==
  /\ ~unmounted
  /\ unmounted' = TRUE
  /\ SetWorld(disconnect(World))
  /\ active' = 0
  /\ Quiet
  /\ NoReport
  /\ UNCHANGED <<currentTime, pc, session, connects, decoding, preempted, msgCount,
                 outbox, status, messages, volume, arrived, discarded, failed>>

\* ------------------------------------------------------------ inbound messages
\* A LiveServerMessage: which serverContent fields it carries.  out and inp
\* are the output/input transcription ("none": absent, "empty": text '',
\* "text": a non-empty text); audio is the decoded duration of the inline
\* audio (0: none).
Presence == {"none", "empty", "text"}
Messages ==
  [ out : Presence, inp : Presence, turnComplete : BOOLEAN,
    audio : 0..MaxDuration, interrupted : BOOLEAN ]

deltaText(kind, id) == IF kind = "text" THEN <<id>> ELSE << >>

Event(text, isUser, isFinal) == [text |-> text, isUser |-> isUser, isFinal |-> isFinal]

\* transcription with each delta put in front of the accumulated text.
transcriptionPrepend(r, m, id) ==
  IF m.out # "none"
  THEN LET text == deltaText(m.out, id) \o r.svc.currentOutputTranscription
       IN [ svc |-> [r.svc EXCEPT !.currentOutputTranscription = text],
            ev |-> Append(r.ev, Event(text, FALSE, FALSE)) ]
  ELSE IF m.inp # "none"
  THEN LET text == deltaText(m.inp, id) \o r.svc.currentInputTranscription
       IN [ svc |-> [r.svc EXCEPT !.currentInputTranscription = text],
            ev |-> Append(r.ev, Event(text, TRUE, FALSE)) ]
  ELSE r

\* handleMessage, "1. Handle Transcription": the if / else-if on the deltas.
\* Takes and returns the service fields with the events emitted so far.
transcription(r, m, id) ==
  IF m.out # "none"
  THEN LET text == r.svc.currentOutputTranscription \o deltaText(m.out, id)
       IN [ svc |-> [r.svc EXCEPT !.currentOutputTranscription = text],
            ev |-> Append(r.ev, Event(text, FALSE, FALSE)) ]
  ELSE IF m.inp # "none"
  THEN LET text == r.svc.currentInputTranscription \o deltaText(m.inp, id)
       IN [ svc |-> [r.svc EXCEPT !.currentInputTranscription = text],
            ev |-> Append(r.ev, Event(text, TRUE, FALSE)) ]
  ELSE r

flushInput(r) ==
  IF r.svc.currentInputTranscription # << >>
  THEN [ svc |-> [r.svc EXCEPT !.currentInputTranscription = << >>],
         ev |-> Append(r.ev, Event(r.svc.currentInputTranscription, TRUE, TRUE)) ]
  ELSE r

flushOutput(r) ==
  IF r.svc.currentOutputTranscription # << >>
  THEN [ svc |-> [r.svc EXCEPT !.currentOutputTranscription = << >>],
         ev |-> Append(r.ev, Event(r.svc.currentOutputTranscription, FALSE, TRUE)) ]
  ELSE r

\* turnComplete that holds the flush back while a decode is in flight.
turnCompleteAfterDecode(r, m) ==
  IF m.turnComplete /\ decoding = {} THEN flushOutput(flushInput(r)) ELSE r

\* handleMessage, the turnComplete block.
turnComplete(r, m) ==
  IF m.turnComplete THEN flushOutput(flushInput(r)) ELSE r

\* interruption that leaves the timeline where it was.
interruptionKeepTimeline(w) ==
  LET stopped == stopAllAudio(w)
  IN [stopped EXCEPT !.svc.currentOutputTranscription = << >>]

\* handleMessage, "3. Handle Interruption".
interruption(w) ==
  LET stopped == stopAllAudio(w)
  IN [stopped EXCEPT !.svc.currentOutputTranscription = << >>,
                     !.svc.nextStartTime = 0]

\* handleMessage, the clamp made before the decode is requested.
clampNextStartTime(s, now) ==
  [s EXCEPT !.nextStartTime = Max(s.nextStartTime, now)]

\* AudioBufferSourceNode.start(when): a start time in the past starts now.
actualStart(when, now) == Max(when, now)

\* handleMessage after the decode: create the source, start it at
\* nextStartTime, advance nextStartTime by the duration, track the source.
schedule(w, d, now) ==
  [w EXCEPT
     !.dev.nodes = @ @@ (d.id :> [ when |-> w.svc.nextStartTime,
                                    actual |-> actualStart(w.svc.nextStartTime, now),
                                    at |-> now,
                                    duration |-> d.duration,
                                    ctx |-> w.svc.outputAudioContext,
                                    stopped |-> FALSE,
                                    ended |-> FALSE ]),
     !.svc.nextStartTime = w.svc.nextStartTime + d.duration,
     !.svc.sources = @ \cup {d.id}]

\* ---------------------------------------------------------------------- App
handleTranscript(prev, e) ==
  LET role == IF e.isUser THEN "user" ELSE "model"
      n == Len(prev)
  IN IF n > 0 /\ prev[n].role = role /\ ~prev[n].isFinal
     THEN [prev EXCEPT ![n] = [@ EXCEPT !.text = e.text, !.isFinal = e.isFinal]]
     ELSE Append(prev, [id |-> n + 1, role |-> role, text |-> e.text,
                        isFinal |-> e.isFinal])

\* The transcript callback invoked once per event, in order.
RECURSIVE onTranscript(_, _)
onTranscript(prev, evs) ==
  IF evs = << >> THEN prev
  ELSE onTranscript(handleTranscript(prev, Head(evs)), Tail(evs))

\* --------------------------------------------------------------- bookkeeping
ids(text) == {text[i] : i \in DOMAIN text}

arrivedAfter(arr, m, id) ==
  [ model |-> IF m.out # "none" THEN Append(arr.model, deltaText(m.out, id))
                                ELSE arr.model,
    user |-> IF m.inp # "none" THEN Append(arr.user, deltaText(m.inp, id))
                               ELSE arr.user,
    mixed |-> arr.mixed \/ (m.out # "none" /\ m.inp # "none") ]

arrivedClosed(arr, m) ==
  IF m.turnComplete THEN [model |-> << >>, user |-> << >>, mixed |-> FALSE]
                    ELSE arr

\* ------------------------------------------------------------------ onmessage
\* handleMessage up to its await of decodeAudioData, or to its end when the
\* message carries no audio (or there is no output context).
onmessage(k, m, maxMsgs) ==
  /\ session[k] = "open"
  /\ msgCount < maxMsgs
  /\ LET id == msgCount + 1
         r == turnComplete(transcription([svc |-> svc, ev |-> << >>], m, id), m)
         arr == arrivedClosed(arrivedAfter(arrived, m, id), m)
         suspend == m.audio # 0 /\ r.svc.outputAudioContext # NULL
     IN /\ msgCount' = id
        /\ delivered' = <<m>>
        /\ emitted' = r.ev
        /\ messages' = onTranscript(messages, r.ev)
        /\ IF suspend
           THEN /\ svc' = clampNextStartTime(r.svc, currentTime[r.svc.outputAudioContext])
                /\ decoding' = decoding \cup {[ id |-> id, conn |-> k,
                                                duration |-> m.audio,
                                                interrupted |-> m.interrupted,
                                                before |-> svc.nextStartTime ]}
                /\ arrived' = arr
                /\ UNCHANGED <<dev, discarded, preempted>>
           ELSE /\ IF m.interrupted
                   THEN /\ SetWorld(interruption([svc |-> r.svc, dev |-> dev]))
                        /\ discarded' = discarded \cup ids(r.svc.currentOutputTranscription)
                        /\ arrived' = [arr EXCEPT !.model = << >>]
                        /\ preempted' = preempted \cup {d.id : d \in decoding}
                   ELSE /\ svc' = r.svc
                        /\ arrived' = arr
                        /\ UNCHANGED <<dev, discarded, preempted>>
                /\ UNCHANGED decoding
  /\ NoReport
  /\ UNCHANGED <<currentTime, pc, session, connects, outbox, status, volume,
                 unmounted, active, failed>>

\* The ways a pending decodeAudioData may settle: any pending decode next,
\* resolved or rejected.
decodeAudioData(pending) == pending \X BOOLEAN

\* handleMessage from the await of decodeAudioData to its end.  The output
\* node of the closure belongs to the context made by connect() call d.conn:
\* with no output context, or another one, the try block throws and the
\* catch drops the chunk.
resumeMessage(d, ok) ==
  /\ <<d, ok>> \in decodeAudioData(decoding)
  /\ decoding' = decoding \ {d}
  /\ LET started == ok /\ svc.outputAudioContext # NULL
                       /\ svc.outputAudioContext = d.conn
         w1 == IF started
               THEN schedule(World, d, currentTime[svc.outputAudioContext])
               ELSE World
     IN /\ volume' = IF started THEN OutputActivityVolume ELSE volume
        /\ IF d.interrupted
           THEN /\ SetWorld(interruption(w1))
                /\ discarded' = discarded \cup ids(svc.currentOutputTranscription)
                /\ arrived' = [arrived EXCEPT !.model = << >>]
                /\ preempted' = (preempted \ {d.id})
                                   \cup {e.id : e \in {x \in decoding : x.id < d.id}}
           ELSE /\ SetWorld(w1)
                /\ preempted' = preempted \ {d.id}
                /\ UNCHANGED <<discarded, arrived>>
  /\ Quiet
  /\ NoReport
  /\ UNCHANGED <<currentTime, pc, session, connects, msgCount, outbox, status,
                 messages, unmounted, active, failed>>

\* The 'ended' listener of a source: fires after stop() or once the buffer
\* has played to its end on a running context.
ended(i) ==
  /\ i \in DOMAIN dev.nodes
  /\ ~dev.nodes[i].ended
  /\ \/ dev.nodes[i].stopped
     \/ /\ dev.nodes[i].ctx \in dev.outputContexts
        /\ currentTime[dev.nodes[i].ctx] >= dev.nodes[i].actual + dev.nodes[i].duration
  /\ dev' = [dev EXCEPT !.nodes[i].ended = TRUE]
  /\ svc' = [svc EXCEPT !.sources = @ \ {i}]
  /\ volume' = IF svc.sources \ {i} = {} THEN 0 ELSE volume
  /\ Quiet
  /\ NoReport
  /\ UNCHANGED <<currentTime, pc, session, connects, decoding, preempted, msgCount, outbox,
                 status, messages, unmounted, arrived, discarded, active, failed>>

\* The playback engines' clocks advance together.
Tick ==
  /\ \E k \in dev.outputContexts : currentTime[k] < MaxTime
  /\ currentTime' = [k \in Conns |->
                       IF k \in dev.outputContexts /\ currentTime[k] < MaxTime
                       THEN currentTime[k] + 1 ELSE currentTime[k]]
  /\ Quiet
  /\ NoReport
  /\ UNCHANGED <<svc, dev, pc, session, connects, decoding, preempted, msgCount, outbox,
                 status, messages, volume, unmounted, arrived, discarded, active,
                 failed>>

\* scriptProcessor.onaudioprocess for one captured window.
onaudioprocess(p, level) ==
  /\ p \in dev.processors
  /\ p.ctx \in dev.inputContexts
  /\ volume' = level
  /\ outbox' = IF svc.sessionPromise # NULL THEN outbox \cup {svc.sessionPromise}
                                             ELSE outbox
  /\ Quiet
  /\ NoReport
  /\ UNCHANGED <<svc, dev, currentTime, pc, session, connects, decoding, preempted,
                 msgCount, status, messages, unmounted, arrived, discarded, active,
                 failed>>

\* ------------------------------------------------------------ specifications
Lifecycle(maxConnects) ==
  \/ toggleConnection(maxConnects)
  \/ Unmount
  \/ \E k \in Conns : GetUserMediaGranted(k)
  \/ \E k \in Conns : GetUserMediaDenied(k)
  \/ \E k \in Conns : onopen(k)
  \/ \E k \in Conns : onerror(k)
  \/ \E k \in Conns : onclose(k)

Inbound(M, maxMsgs) ==
  \E k \in Conns, m \in M : onmessage(k, m, maxMsgs)

Decoding ==
  \E d \in decoding, ok \in BOOLEAN : resumeMessage(d, ok)

Ended ==
  \E i \in DOMAIN dev.nodes : ended(i)

Capture ==
  \E p \in dev.processors, level \in {0, FullVolume} : onaudioprocess(p, level)

\* The whole program.
Next ==
  \/ Lifecycle(MaxConnects)
  \/ Inbound(Messages, MaxMsgs)
  \/ Decoding
  \/ Ended
  \/ Tick
  \/ Capture

Spec == Init /\ [][Next]_vars

\* Transcript traffic: messages without audio, one connection and a reconnect.
TranscriptMessages == {m \in Messages : m.audio = 0}

NextTranscript ==
  \/ Lifecycle(TranscriptConnects)
  \/ Inbound(TranscriptMessages, TranscriptMsgs)

SpecTranscript == Init /\ [][NextTranscript]_vars

\* Playback traffic: audio chunks and interruptions, no transcript.
PlaybackMessages ==
  {m \in Messages : m.inp = "none" /\ m.out = "none" /\ ~m.turnComplete}

NextPlayback ==
  \/ Lifecycle(PlaybackConnects)
  \/ Inbound(PlaybackMessages, PlaybackMsgs)
  \/ Decoding
  \/ Ended
  \/ Tick

SpecPlayback == Init /\ [][NextPlayback]_vars

\* Interruption traffic: Model deltas, turn ends, short chunks, interruptions.
InterruptionMessages ==
  {m \in Messages : m.inp = "none" /\ m.out # "empty" /\ m.audio <= 1}

NextInterruption ==
  \/ Lifecycle(InterruptionConnects)
  \/ Inbound(InterruptionMessages, InterruptionMsgs)
  \/ Decoding
  \/ Ended

SpecInterruption == Init /\ [][NextInterruption]_vars

\* Connection lifecycle: repeated connects with a chunk of audio.
LifecycleMessages ==
  {m \in Messages : m.inp = "none" /\ m.out = "none" /\ ~m.turnComplete
                    /\ m.audio # 0 /\ ~m.interrupted}

NextLifecycle ==
  \/ Lifecycle(LifecycleConnects)
  \/ Inbound(LifecycleMessages, LifecycleMsgs)
  \/ Decoding

SpecLifecycle == Init /\ [][NextLifecycle]_vars

\* Capture: the connection lifecycle with the microphone windows, no inbound
\* traffic.
NextCapture ==
  \/ Lifecycle(CaptureConnects)
  \/ Capture

SpecCapture == Init /\ [][NextCapture]_vars

\* Dispatch: deltas of both speakers, turn ends and short chunks, with the
\* decodes in flight; no interruption.
DispatchMessages ==
  {m \in Messages : m.out # "empty" /\ m.inp # "empty" /\ m.audio <= 1
                    /\ ~m.interrupted}

NextDispatch ==
  \/ Lifecycle(DispatchConnects)
  \/ Inbound(DispatchMessages, DispatchMsgs)
  \/ Decoding

SpecDispatch == Init /\ [][NextDispatch]_vars

\* =================================================================== claims
Speakers == {"user", "model"}
buffer(s, sp) == IF sp = "user" THEN s.currentInputTranscription
                                ELSE s.currentOutputTranscription

RECURSIVE Flatten(_)
Flatten(ss) == IF ss = << >> THEN << >> ELSE Head(ss) \o Flatten(Tail(ss))

IsFinalOf(e, sp) == e.isFinal /\ e.isUser = (sp = "user")
finalsOf(evs, sp) == SelectSeq(evs, LAMBDA e : IsFinalOf(e, sp))

\* The deltas of the turn that the message delivered by this step closes,
\* that message's own included.
TurnDeltas == arrivedAfter(arrived, delivered'[1], msgCount')

\* This step delivers a turn-complete that closes a turn holding at least one
\* delta of speaker sp, each delta of the turn having come in a message of
\* its own speaker alone.
ClosesTurnOf(sp) ==
  /\ delivered' # << >>
  /\ delivered'[1].turnComplete
  /\ Len(TurnDeltas[sp]) >= 1
  /\ ~TurnDeltas.mixed

\* C1 as written: deltas of one speaker followed by a turn-complete, with no
\* interruption applied in between, give exactly one final event for that
\* speaker, whose text is the concatenation of the deltas in arrival order,
\* and leave that speaker's buffer empty.
C1_ExactlyOneFinal ==
  [][\A sp \in Speakers :
       ClosesTurnOf(sp) =>
         /\ finalsOf(emitted', sp) =
              << Event(Flatten(TurnDeltas[sp]), sp = "user", TRUE) >>
         /\ buffer(svc', sp) = << >>]_vars

\* C1 amended: the final event is emitted exactly when the concatenation is
\* not the empty text; its text is the concatenation of the deltas in arrival
\* order; the speaker's buffer is empty afterward in either case.
C1_FinalIffNonEmpty ==
  [][\A sp \in Speakers :
       ClosesTurnOf(sp) =>
         /\ finalsOf(emitted', sp) =
              IF Flatten(TurnDeltas[sp]) = << >> THEN << >>
              ELSE << Event(Flatten(TurnDeltas[sp]), sp = "user", TRUE) >>
         /\ buffer(svc', sp) = << >>]_vars

\* A turn of two Model deltas was closed: one final event carrying both, and
\* the Model buffer empty.
C1_Witness ==
  /\ delivered # << >> /\ delivered[1].turnComplete
  /\ \E i \in DOMAIN emitted :
       /\ IsFinalOf(emitted[i], "model")
       /\ Len(emitted[i].text) = 2
       /\ emitted[i].text[1] < emitted[i].text[2]
  /\ svc.currentOutputTranscription = << >>

\* C7 as written: the visible list never holds two non-final messages of one
\* speaker, and a message that is final is never changed.
OpenMessages(list, role) ==
  {i \in DOMAIN list : list[i].role = role /\ ~list[i].isFinal}

C7_OneOpenMessagePerSpeaker ==
  [][/\ \A role \in Speakers : Cardinality(OpenMessages(messages', role)) <= 1
     /\ \A i \in DOMAIN messages :
          messages[i].isFinal =>
            i \in DOMAIN messages' /\ messages'[i] = messages[i]]_vars

\* ------------------------------------------------------------------ playback
nodes == dev.nodes
Scheduled == DOMAIN dev.nodes
slotEnd(n) == n.actual + n.duration

\* The chunks this step starts (their identifiers are arrival numbers).
Started == DOMAIN dev'.nodes \ DOMAIN dev.nodes

\* This step applies an interruption: a message without audio that carries
\* one, or the resumption of a suspended message that carries one.
AppliesInterruption ==
  \/ delivered' # << >> /\ delivered'[1].interrupted /\ decoding' = decoding
  \/ \E d \in decoding \ decoding' : d.interrupted

\* C2 as written, for two chunks of one utterance (both in the active set):
\* the chunk whose message arrived first has the earlier timeline start.
C2_ArrivalOrderKept ==
  \A i \in svc.sources, j \in svc.sources :
    i < j => nodes[i].when < nodes[j].when

\* C3 as written, for the chunks of one utterance (all in the active set):
\* a chunk starts no earlier than the engine's clock when it is scheduled, and
\* the slices of two chunks do not overlap.
C3_SlicesDisjoint ==
  /\ \A i \in svc.sources : nodes[i].actual >= nodes[i].at
  /\ \A i \in svc.sources, j \in svc.sources :
       i # j => \/ slotEnd(nodes[i]) <= nodes[j].actual
                \/ slotEnd(nodes[j]) <= nodes[i].actual

\* C4 as written: a chunk is started at the larger of nextStartTime and the
\* engine's clock, both read when it is scheduled, and nextStartTime becomes
\* that start plus the chunk's duration.
C4_StartIsScheduleTimeMax ==
  [][\A i \in Started :
       LET start == Max(svc.nextStartTime, currentTime[svc.outputAudioContext])
       IN /\ dev'.nodes[i].when = start
          /\ i \in svc'.sources =>
               svc'.nextStartTime = start + dev'.nodes[i].duration]_vars

\* C5: a step that applies no interruption never lowers nextStartTime (so it
\* is non-decreasing over the chunks scheduled in one utterance), and a step
\* that applies an interruption leaves it at 0.
C5_TimelineMonotone ==
  [][IF AppliesInterruption
     THEN svc'.nextStartTime = 0
     ELSE svc'.nextStartTime >= svc.nextStartTime]_vars

\* A chunk was played and interrupted, and a later chunk has been scheduled on
\* the reset timeline.
C5_Witness ==
  \E i \in Scheduled, j \in svc.sources :
    /\ i < j
    /\ nodes[i].stopped
    /\ svc.nextStartTime = nodes[j].when + nodes[j].duration
    /\ svc.nextStartTime > 0

\* C6: a step that applies an interruption stops every buffer of the active
\* set (the chunk it has just started included), leaves the set empty and the
\* Model buffer empty; and no final event ever carries text it discarded.
C6_InterruptionClears ==
  [][/\ AppliesInterruption =>
          /\ \A i \in svc.sources \cup Started : dev'.nodes[i].stopped
          /\ svc'.sources = {}
          /\ svc'.currentOutputTranscription = << >>
     /\ \A n \in DOMAIN emitted' :
          emitted'[n].isFinal => ids(emitted'[n].text) \cap discarded' = {}]_vars

\* An interruption stopped a playing buffer and discarded Model text, and a
\* later turn has been closed with a final event.
C6_Witness ==
  /\ \E i \in Scheduled : nodes[i].stopped
  /\ discarded # {}
  /\ svc.sources = {}
  /\ \E n \in DOMAIN emitted : IsFinalOf(emitted[n], "model")

\* ----------------------------------------------------------------- lifecycle
\* This step runs disconnect(): the App's toggle on a connected session, the
\* App's cleanup, the catch block of connect(), or the session's onerror.
CallsDisconnect ==
  \/ toggleConnection(MaxConnects) /\ status = "CONNECTED"
  \/ Unmount
  \/ \E k \in Conns : GetUserMediaDenied(k)
  \/ \E k \in Conns : onerror(k)

\* This step enters connect().
CallsConnect == toggleConnection(MaxConnects) /\ connects' = connects + 1

\* A connect() has not been followed by disconnect() and is still waiting
\* for the microphone, or its session is opening or open.
ConnectingOrConnected ==
  /\ active # 0
  /\ \/ pc[active] = "getUserMedia"
     \/ session[active] \in {"opening", "open"}

\* C8 as written: disconnect() faults in no state, calling it again right
\* away changes nothing, and the connection state is Disconnected afterward.
C8_DisconnectIdempotent ==
  [][CallsDisconnect =>
       /\ ~dev'.fault
       /\ disconnect([svc |-> svc', dev |-> dev']) = [svc |-> svc', dev |-> dev']
       /\ status' = "DISCONNECTED"]_vars

\* C9 as written: when disconnect() returns no capture handler is installed,
\* the active set is empty, no session is opening or open, no context runs,
\* no microphone track is live, and nextStartTime is 0.
C9_DisconnectReleasesAll ==
  [][CallsDisconnect =>
       /\ dev'.processors = {}
       /\ svc'.sources = {}
       /\ \A k \in Conns : session'[k] \notin {"opening", "open"}
       /\ dev'.inputContexts = {} /\ dev'.outputContexts = {}
       /\ dev'.tracks = {}
       /\ svc'.nextStartTime = 0]_vars

\* C10 as written: connect() on a session that is Connecting or Connected
\* reports no status, acquires no context or stream, and opens no session.
C10_ConnectIsNoOpWhenActive ==
  [][(CallsConnect /\ ConnectingOrConnected) =>
       /\ status' = status
       /\ dev'.inputContexts = dev.inputContexts
       /\ dev'.outputContexts = dev.outputContexts
       /\ pc' = pc /\ session' = session]_vars

\* ------------------------------------------------------------- status reports
\* This step invokes the status callback.
Reports == lastReport' # lastReport

\* This step invokes the status callback on behalf of connect() call k.
ReportsFor(k) == Reports /\ lastReport'.conn = k

\* This step is the catch block of connect() call k, entered because
\* getUserMedia rejected.
MicrophoneFails(k) ==
  pc[k] = "getUserMedia" /\ pc'[k] = "done" /\ session'[k] = "none"

\* connect() call k has ended in its catch block.
MicrophoneFailed(k) == pc[k] = "done" /\ session[k] = "none"

\* The contexts, stream and capture handler connect() call k has acquired.
Holds(d, k) ==
  \/ k \in d.inputContexts
  \/ k \in d.outputContexts
  \/ k \in d.tracks
  \/ \E p \in d.processors : p.id = k

\* C11 as written: a connect() whose getUserMedia rejects reports Connecting
\* on entry and nothing more until the rejection, then reports Error and
\* leaves none of its contexts running and no stream of its own live; after
\* that it reports nothing and its session is never opened.
C11_MicrophoneFailure ==
  [][\A k \in Conns :
       /\ (pc[k] = "idle" /\ pc'[k] = "getUserMedia") =>
            lastReport' = [conn |-> k, status |-> "CONNECTING"]
       /\ (pc[k] = "getUserMedia" /\ ~MicrophoneFails(k)) => ~ReportsFor(k)
       /\ MicrophoneFails(k) =>
            /\ lastReport' = [conn |-> k, status |-> "ERROR"]
            /\ ~Holds(dev', k)
       /\ MicrophoneFailed(k) =>
            /\ ~ReportsFor(k)
            /\ session'[k] = "none"
            /\ ~Holds(dev', k)]_vars

\* The ConnectionState of the session state machine (spec 4.1), read off what
\* the service is doing: Disconnected when no connect() is in effect,
\* Connected when the session of the connect() in effect is open, Connecting
\* before that.  Error is passed through within the step that reports it.
ConnectionState ==
  IF active = 0 THEN "DISCONNECTED"
  ELSE IF session[active] = "open" THEN "CONNECTED"
  ELSE "CONNECTING"

\* C12 as written: a step that changes the ConnectionState invokes the status
\* callback; the callback is invoked only with the state the step leaves (so
\* the fall-back to Disconnected after an Error is reported too), and never
\* with the status it was last invoked with.
C12_EveryChangeReportedOnce ==
  [][/\ ConnectionState' # ConnectionState => Reports
     /\ Reports => /\ lastReport'.status = ConnectionState'
                   /\ lastReport'.status # lastReport.status]_vars

\* This step is the onerror callback of session k, fired while the service is
\* Connected on that session.
TransportFails(k) ==
  active = k /\ session[k] = "open" /\ session'[k] = "error"

\* C13 as written: the onerror of a Connected session reports Error and
\* leaves the service as disconnect() would; from then on, until connect() is
\* entered again, neither Connecting nor Connected is reported.
C13_TransportFailure ==
  [][/\ \A k \in Conns :
          TransportFails(k) =>
            /\ lastReport' = [conn |-> k, status |-> "ERROR"]
            /\ [svc |-> svc', dev |-> dev'] = disconnect(World)
     /\ (failed /\ connects' = connects) =>
          ~(Reports /\ lastReport'.status \in {"CONNECTING", "CONNECTED"})]_vars

\* -------------------------------------------------------------------- capture
\* C14 as written: a capture handler is installed only for a session that has
\* reported open; a capture callback fires only while the service has not
\* been torn down (disconnect() nulls the contexts, connect() sets them), and
\* the frame it submits goes to no session that has yet to report open.
C14_CaptureWithinSession ==
  [][/\ \A p \in dev'.processors :
          session'[p.id] \in {"open", "error", "closed"}
     /\ Capture =>
          /\ svc.inputAudioContext # NULL
          /\ svc.sessionPromise # NULL =>
               session[svc.sessionPromise] # "opening"]_vars

\* ------------------------------------------------------------------- dispatch
\* The suspended handleMessage calls this step resumes.
Resumed == decoding \ decoding'

\* C15 as written.  The step that delivers a message applies each transcript
\* delta it carries and then its turn-complete (a final event of the turn
\* includes the delta the same message carried) and takes up its audio; the step that
\* completes the message applies the audio and then the interruption; and no
\* other message is delivered between the two steps.
C15_FixedOrderNoInterleaving ==
  [][/\ delivered' # << >> =>
          LET m == delivered'[1]
              id == msgCount'
          IN /\ m.out # "none" =>
                  /\ emitted' # << >>
                  /\ emitted'[1] = Event(svc.currentOutputTranscription
                                           \o deltaText(m.out, id), FALSE, FALSE)
             /\ m.inp # "none" =>
                  \E n \in DOMAIN emitted' :
                    emitted'[n] = Event(svc.currentInputTranscription
                                          \o deltaText(m.inp, id), TRUE, FALSE)
             /\ (m.out = "text" /\ m.turnComplete) =>
                  \E n \in DOMAIN emitted' :
                    /\ n > 1
                    /\ IsFinalOf(emitted'[n], "model")
                    /\ id \in ids(emitted'[n].text)
             /\ (m.audio # 0 /\ svc.outputAudioContext # NULL) =>
                  \E d \in decoding' : d.id = id
             /\ (m.interrupted /\ ~\E d \in decoding' : d.id = id) =>
                  svc'.sources = {} /\ svc'.nextStartTime = 0
     /\ \A d \in Resumed :
          /\ d.id = msgCount
          /\ d.interrupted => svc'.sources = {} /\ svc'.nextStartTime = 0]_vars

\* The decode of the suspended call d is rejected in this step: the call is
\* resumed with the output context of its connection still in place, its
\* message carries no interruption, and no source is started for it.
DecodeFails(d) ==
  /\ d \in Resumed
  /\ svc.outputAudioContext = d.conn
  /\ ~d.interrupted
  /\ d.id \notin DOMAIN dev'.nodes

\* C16 as written: a rejected decode changes neither the status nor the
\* audio resources nor the active set, leaves the other suspended calls
\* pending, and leaves nextStartTime at the value it had before the message
\* of the chunk arrived.
C16_DecodeFailureDropsChunk ==
  [][\A d \in decoding :
       DecodeFails(d) =>
         /\ status' = status /\ ~Reports
         /\ dev' = dev
         /\ svc'.sources = svc.sources
         /\ decoding' = decoding \ {d}
         /\ svc'.nextStartTime = d.before]_vars

\* C17: a step that delivers a message while an earlier message's decode is
\* suspended applies the message's transcript delta and turn-complete in that
\* very step (the partial event with the delta appended, a final event for
\* each non-empty buffer, both buffers empty after a turn-complete), and the
\* decode is still suspended afterwards.
C17_DispatchDoesNotWait ==
  [][(delivered' # << >> /\ decoding # {}) =>
       LET m == delivered'[1]
           id == msgCount'
           out == svc.currentOutputTranscription \o deltaText(m.out, id)
           inp == IF m.out = "none"
                  THEN svc.currentInputTranscription \o deltaText(m.inp, id)
                  ELSE svc.currentInputTranscription
       IN /\ decoding \subseteq decoding'
          /\ m.out # "none" =>
               emitted'[1] = Event(out, FALSE, FALSE)
          /\ (m.out = "none" /\ m.inp # "none") =>
               emitted'[1] = Event(inp, TRUE, FALSE)
          /\ m.turnComplete =>
               /\ svc'.currentInputTranscription = << >>
               /\ svc'.currentOutputTranscription = << >>
               /\ finalsOf(emitted', "user") =
                    IF inp = << >> THEN << >> ELSE <<Event(inp, TRUE, TRUE)>>
               /\ finalsOf(emitted', "model") =
                    IF out = << >> THEN << >> ELSE <<Event(out, FALSE, TRUE)>>
          /\ ~m.turnComplete =>
               /\ svc'.currentInputTranscription = inp
               /\ svc'.currentOutputTranscription = out
               /\ finalsOf(emitted', "user") = << >>
               /\ finalsOf(emitted', "model") = << >>]_vars

\* A turn-complete has been delivered while the chunk of an earlier message
\* was still being decoded, and its final event has been emitted.
C17_Witness ==
  /\ delivered # << >>
  /\ delivered[1].turnComplete
  /\ \E d \in decoding : d.id < msgCount
  /\ \E n \in DOMAIN emitted : emitted[n].isFinal

\* C18 as written: a suspended call whose message arrived before an
\* interruption that has since been applied starts no source when it is
\* resumed, adds nothing to the active set, and leaves nextStartTime where
\* the interruption put it.
C18_PreemptedChunkDiscarded ==
  [][\A d \in Resumed :
       d.id \in preempted =>
         /\ d.id \notin DOMAIN dev'.nodes
         /\ d.id \notin svc'.sources
         /\ ~d.interrupted => svc'.nextStartTime = svc.nextStartTime]_vars

\* ------------------------------------------------------------ cancelled connect
\* disconnect() has run since connect() call k, the latest, was entered, and
\* call k is still in progress: it waits for the microphone or its session
\* has not opened yet.  (Only disconnect() nulls the output context.)
Cancelled(k) ==
  /\ connects = k
  /\ svc.outputAudioContext = NULL
  /\ pc[k] = "getUserMedia" \/ session[k] = "opening"

\* C19 as written: no step taken after disconnect() has cancelled connect()
\* call k leaves a microphone stream stored or live, a session of call k
\* opening or open, a new capture handler, or a report of Connected.
C19_CancelledConnectStops ==
  [][\A k \in Conns :
       Cancelled(k) =>
         /\ svc'.mediaStream = NULL
         /\ k \notin dev'.tracks
         /\ session'[k] \notin {"opening", "open"}
         /\ dev'.processors \subseteq dev.processors
         /\ ~(ReportsFor(k) /\ lastReport'.status = "CONNECTED")]_vars

\* --------------------------------------------------------------- reconnection
\* This step enters connect() after disconnect() has run on an earlier
\* connection (the contexts are null and a connect() has been made before).
Reconnects ==
  /\ connects > 0
  /\ connects' = connects + 1
  /\ svc.outputAudioContext = NULL

\* C20 as written: a connect() that follows disconnect() starts with both
\* accumulated-text buffers empty and with nextStartTime 0.
C20_ReconnectStartsClean ==
  [][Reconnects =>
       /\ svc'.currentInputTranscription = << >>
       /\ svc'.currentOutputTranscription = << >>
       /\ svc'.nextStartTime = 0]_vars
====
